---------------------------- MODULE Spec2Model ----------------------------
(***************************************************************************)
(* Model of the graceful crate (src/src/lib.rs): SignalGuard::new and      *)
(* SignalGuard::at_exit in both platform variants.                         *)
(*                                                                         *)
(*  - unix (lib.rs 55-89): new() blocks SIGINT, SIGQUIT and SIGTERM for    *)
(*    the calling thread; at_exit() waits synchronously for one of them    *)
(*    (sigwait) and calls the user handler with its number.                *)
(*  - windows (lib.rs 95-135): new() registers the console control         *)
(*    callback `handler`; the callback and at_exit() meet twice on the     *)
(*    zero-capacity channel CHAN, whose receiving end is behind a mutex.   *)
(*                                                                         *)
(* The operating system is the environment: it sends signals, raises       *)
(* console events, delivers unblocked signals asynchronously (default      *)
(* action: the process is terminated), and decides whether a system call   *)
(* succeeds.  Threads are spawned as examples/simple.rs does.              *)
(***************************************************************************)
EXTENDS Integers, FiniteSets, Sequences, TLC

(* ---------------------------- bounds ---------------------------------- *)

\* worker threads the application may spawn besides the main thread
MaxWorkers == 1
\* signals the environment sends to the process (unix)
MaxSends == 2
\* console events the OS raises, one callback context each (windows)
MaxEvents == 2

(* ------------------------- program constants -------------------------- *)

\* nix::sys::signal::{SIGINT, SIGQUIT, SIGTERM}, their Linux numbers
SIGINT == 2
SIGQUIT == 3
SIGTERM == 15

\* a signal the guard does not handle (SIGHUP = 1), sent by the environment
NonQualifying == {1}

Signals == {SIGINT, SIGQUIT, SIGTERM} \cup NonQualifying

\* console control events passed to the callback as `event: DWORD`, the two
\* the crate documents (lib.rs 12): CTRL_C_EVENT = 0, CTRL_BREAK_EVENT = 1
ConsoleEvents == {0, 1}

\* the thread that runs main()
MainThread == 0

Threads == 0..MaxWorkers

Callbacks == 1..MaxEvents

(* --------------------------- pure helpers ------------------------------ *)

\* SigSet::empty()
SigSetEmpty == {}

\* SigSet::add(signal)
SigSetAdd(mask, s) == mask \cup {s}

\* SigSet::thread_block(): pthread_sigmask(SIG_BLOCK, set), the set is added
\* to the thread's blocked signals
ThreadBlock(threadMask, set) == threadMask \cup set

\* mutant of InitMask: init forgets mask.add(SIGQUIT)
InitMaskNoQuit == SigSetAdd(SigSetAdd(SigSetEmpty, SIGINT), SIGTERM)

\* the set built by SignalGuard::init: three add() calls on the empty set
InitMask == SigSetAdd(SigSetAdd(SigSetAdd(SigSetEmpty, SIGINT), SIGQUIT), SIGTERM)

\* `sig as usize` / `event as usize`: a widening cast.  A non-negative value
\* (every signal number, every DWORD) keeps its value.  A negative i32 would
\* be sign-extended to 2^64 + x, which no signal number is; the operator is
\* left undefined there.
AsUsize(x) == CASE x >= 0 -> x

\* the second message the callback sends: CHAN.0.send(0)
AckValue == 0

(* ----------------------------- state ---------------------------------- *)

VARIABLES
    variant,        \* "unix" or "windows": the cfg(...) the crate is built for
    procAlive,      \* FALSE once the OS has terminated the process
    pc,             \* per thread: where it is
    sigmask,        \* per thread: its blocked signals (unix)
    pending,        \* signals pending for the process (unix)
    guard,          \* "none", or "built" once new() has returned a SignalGuard
    guardMask,      \* the SigSet stored in the guard (unix): SignalGuard(mask)
    registered,     \* SetConsoleCtrlHandler succeeded (windows)
    mutexHeld,      \* threads holding the lock of CHAN.1 (at most one)
    cbpc,           \* per callback context: where it is
    cbEvent,        \* per callback context: the event it was invoked with
    cbRet,          \* per callback context: the BOOL it returned, if any
    handlerCalls,   \* per thread: invocations of the handler it passed to at_exit
    handlerArg,     \* per thread: the argument of the last invocation
    handlerCtx,     \* per thread: the context that executed its handler
    handlerDone,    \* per thread: completed runs of its handler
    recvCount,      \* per thread: receives on CHAN.1 its at_exit has completed
    initFailed,     \* the OS-level initialization step of new() failed
    earlySpawn,     \* (unix) some thread was spawned before new() returned, so
                    \* with a mask that new() did not set
    sendCount,      \* signals sent so far (unix)
    sentSigs,       \* the signals sent so far (unix)
    asyncDelivered, \* <<thread, signal>>: signals delivered asynchronously
    waitErr,        \* threads whose self.0.wait() returned Err (unix)
    msgs,           \* per callback context: the messages of it that crossed CHAN
    early           \* every qualifying signal / console event so far arrived
                    \* after new() returned and before any thread called at_exit

vars == <<variant, procAlive, pc, sigmask, pending, guard, guardMask, registered,
          mutexHeld, cbpc, cbEvent, cbRet, handlerCalls, handlerArg, handlerCtx,
          handlerDone, recvCount, initFailed, earlySpawn, sendCount, sentSigs,
          asyncDelivered, waitErr, msgs, early>>

threadVars == <<pc, handlerCalls, handlerArg, handlerCtx, handlerDone, recvCount>>
unixVars == <<sigmask, pending, guardMask, sendCount, sentSigs, asyncDelivered>>
winVars == <<registered, mutexHeld, cbpc, cbEvent, cbRet>>
histVars == <<waitErr, msgs, early>>

PcValues == {"absent", "run", "wait", "lock1", "recv1", "handler",
             "lock2", "recv2", "returned", "panicked"}

\* no handler has run for a call yet
NoCtx == <<"none", 0>>

Init ==
    /\ variant \in {"unix", "windows"}
    /\ procAlive = TRUE
    /\ pc = [t \in Threads |-> IF t = MainThread THEN "run" ELSE "absent"]
    \* the mask main() starts with is the one the process inherited
    /\ \E m \in SUBSET (NonQualifying \cup {SIGINT}) :
          sigmask = [t \in Threads |-> IF t = MainThread /\ variant = "unix"
                                        THEN m ELSE {}]
    /\ pending = {}
    /\ guard = "none"
    /\ guardMask = {}
    /\ registered = FALSE
    /\ mutexHeld = {}
    /\ cbpc = [c \in Callbacks |-> "idle"]
    /\ cbEvent = [c \in Callbacks |-> 0]
    /\ cbRet = [c \in Callbacks |-> "none"]
    /\ handlerCalls = [t \in Threads |-> 0]
    /\ handlerArg = [t \in Threads |-> 0]
    /\ handlerCtx = [t \in Threads |-> NoCtx]
    /\ handlerDone = [t \in Threads |-> 0]
    /\ recvCount = [t \in Threads |-> 0]
    /\ initFailed = FALSE
    /\ earlySpawn = FALSE
    /\ sendCount = 0
    /\ sentSigs = {}
    /\ asyncDelivered = {}
    /\ waitErr = {}
    /\ msgs = [c \in Callbacks |-> <<>>]
    /\ early = TRUE

\* an event that arrives now arrives after new() has returned and before
\* any thread has called at_exit
ArrivesEarly == guard = "built" /\ \A t \in Threads : pc[t] \in {"absent", "run"}

(* ------------------------ thread creation ------------------------------ *)

\* mutant of InheritedMask: a new thread starts with nothing blocked
FreshMask(p) == {}

\* std::thread::spawn (examples/simple.rs 19): the new thread starts with a
\* copy of its parent's signal mask
InheritedMask(p) == sigmask[p]

Spawn(p, t) ==
    /\ procAlive
    /\ pc[p] \in {"run", "handler", "returned"}
    /\ pc[t] = "absent"
    /\ \A u \in Threads : (u # MainThread /\ u < t) => pc[u] # "absent"
    /\ pc' = [pc EXCEPT ![t] = "run"]
    /\ sigmask' = [sigmask EXCEPT ![t] = IF variant = "unix" THEN InheritedMask(p) ELSE {}]
    /\ earlySpawn' = (earlySpawn \/ (variant = "unix" /\ guard = "none"))
    /\ UNCHANGED <<variant, procAlive, pending, guard, guardMask, handlerCalls,
                   handlerArg, handlerCtx, handlerDone, recvCount, initFailed,
                   sendCount, sentSigs, asyncDelivered>>
    /\ UNCHANGED winVars
    /\ UNCHANGED histVars

(* -------------------------- unix variant -------------------------------- *)

\* SignalGuard::new (unix): init(&mut mask).unwrap(); SignalGuard(mask).
\* `ok` is the result of pthread_sigmask.  On Err the unwrap panics and no
\* guard is built; the thread's mask is then unchanged.
NewUnix(ok) ==
    /\ procAlive
    /\ variant = "unix"
    /\ pc[MainThread] = "run"
    /\ guard = "none"
    /\ IF ok
         THEN /\ sigmask' = [sigmask EXCEPT ![MainThread] = ThreadBlock(@, InitMask)]
              /\ guard' = "built"
              /\ guardMask' = InitMask
              /\ UNCHANGED <<pc, initFailed>>
         ELSE /\ pc' = [pc EXCEPT ![MainThread] = "panicked"]
              /\ initFailed' = TRUE
              /\ UNCHANGED <<sigmask, guard, guardMask>>
    /\ UNCHANGED <<variant, procAlive, pending, handlerCalls, handlerArg, handlerCtx,
                   handlerDone, recvCount, earlySpawn, sendCount, sentSigs,
                   asyncDelivered>>
    /\ UNCHANGED winVars
    /\ UNCHANGED histVars

\* kill(pid, s): the signal becomes pending for the process (a standard
\* signal is pending at most once)
Kill(s) ==
    /\ procAlive
    /\ variant = "unix"
    /\ sendCount < MaxSends
    /\ pending' = pending \cup {s}
    /\ sendCount' = sendCount + 1
    /\ sentSigs' = sentSigs \cup {s}
    /\ UNCHANGED <<variant, procAlive, sigmask, guard, guardMask, initFailed,
                   earlySpawn, asyncDelivered>>
    /\ UNCHANGED threadVars
    /\ UNCHANGED winVars
    /\ early' = (early /\ (s \in InitMask => ArrivesEarly))
    /\ UNCHANGED <<waitErr, msgs>>

\* the kernel delivers a pending signal to a thread that does not block it;
\* no handler is installed, so the default action terminates the process
AsyncDeliver(t, s) ==
    /\ procAlive
    /\ variant = "unix"
    /\ pc[t] \notin {"absent", "panicked"}
    /\ s \in pending
    /\ s \notin sigmask[t]
    /\ pending' = pending \ {s}
    /\ asyncDelivered' = asyncDelivered \cup {<<t, s>>}
    /\ procAlive' = FALSE
    /\ UNCHANGED <<variant, sigmask, guard, guardMask, initFailed, earlySpawn,
                   sendCount, sentSigs>>
    /\ UNCHANGED threadVars
    /\ UNCHANGED winVars
    /\ UNCHANGED histVars

\* mutant of AtExitCall: at_exit calls the handler without waiting
AtExitNoWait(t) ==
    /\ procAlive
    /\ guard = "built"
    /\ pc[t] = "run"
    /\ pc' = [pc EXCEPT ![t] = "handler"]
    /\ handlerCalls' = [handlerCalls EXCEPT ![t] = @ + 1]
    /\ UNCHANGED <<variant, procAlive, guard, initFailed, earlySpawn, handlerArg,
                   handlerCtx, handlerDone, recvCount>>
    /\ UNCHANGED unixVars
    /\ UNCHANGED winVars
    /\ UNCHANGED histVars

\* at_exit is entered: on unix the thread blocks in self.0.wait() (sigwait),
\* on windows it goes for the lock of CHAN.1
AtExitCall(t) ==
    /\ procAlive
    /\ guard = "built"
    /\ pc[t] = "run"
    /\ pc' = [pc EXCEPT ![t] = IF variant = "unix" THEN "wait" ELSE "lock1"]
    /\ UNCHANGED <<variant, procAlive, guard, initFailed, earlySpawn, handlerCalls,
                   handlerArg, handlerCtx, handlerDone, recvCount>>
    /\ UNCHANGED unixVars
    /\ UNCHANGED winVars
    /\ UNCHANGED histVars

\* mutant of HandlerContext: the handler is run by a callback context
HandlerOnCallback(t) == <<"callback", t>>

\* the context in which at_exit runs the handler: the calling thread itself
HandlerContext(t) == <<"thread", t>>

\* mutant of SigwaitReturn: the signal taken is unblocked again afterwards
SigwaitReturnUnblocks(t, s) ==
    /\ procAlive
    /\ variant = "unix"
    /\ pc[t] = "wait"
    /\ s \in pending \cap guardMask
    /\ pending' = pending \ {s}
    /\ sigmask' = [sigmask EXCEPT ![t] = @ \ {s}]
    /\ pc' = [pc EXCEPT ![t] = "handler"]
    /\ handlerCalls' = [handlerCalls EXCEPT ![t] = @ + 1]
    /\ handlerArg' = [handlerArg EXCEPT ![t] = AsUsize(s)]
    /\ handlerCtx' = [handlerCtx EXCEPT ![t] = HandlerContext(t)]
    /\ UNCHANGED <<variant, procAlive, guard, guardMask, handlerDone,
                   recvCount, initFailed, earlySpawn, sendCount, sentSigs,
                   asyncDelivered>>
    /\ UNCHANGED winVars
    /\ UNCHANGED histVars

\* let sig = self.0.wait().unwrap(); handler(sig as usize);
\* sigwait takes one pending signal of the guard's set and the handler starts
SigwaitReturn(t, s) ==
    /\ procAlive
    /\ variant = "unix"
    /\ pc[t] = "wait"
    /\ s \in pending \cap guardMask
    /\ pending' = pending \ {s}
    /\ pc' = [pc EXCEPT ![t] = "handler"]
    /\ handlerCalls' = [handlerCalls EXCEPT ![t] = @ + 1]
    /\ handlerArg' = [handlerArg EXCEPT ![t] = AsUsize(s)]
    /\ handlerCtx' = [handlerCtx EXCEPT ![t] = HandlerContext(t)]
    /\ UNCHANGED <<variant, procAlive, sigmask, guard, guardMask, handlerDone,
                   recvCount, initFailed, earlySpawn, sendCount, sentSigs,
                   asyncDelivered>>
    /\ UNCHANGED winVars
    /\ UNCHANGED histVars

\* mutant of SigwaitFail: on Err at_exit waits again instead of panicking
SigwaitFailRetries(t) ==
    /\ procAlive
    /\ variant = "unix"
    /\ pc[t] = "wait"
    /\ waitErr' = waitErr \cup {t}
    /\ UNCHANGED <<variant, procAlive, guard, initFailed, earlySpawn>>
    /\ UNCHANGED threadVars
    /\ UNCHANGED unixVars
    /\ UNCHANGED winVars
    /\ UNCHANGED <<msgs, early>>

\* self.0.wait() returns Err: the unwrap panics, the handler is not called
SigwaitFail(t) ==
    /\ procAlive
    /\ variant = "unix"
    /\ pc[t] = "wait"
    /\ pc' = [pc EXCEPT ![t] = "panicked"]
    /\ UNCHANGED <<variant, procAlive, guard, initFailed, earlySpawn, handlerCalls,
                   handlerArg, handlerCtx, handlerDone, recvCount>>
    /\ UNCHANGED unixVars
    /\ UNCHANGED winVars
    /\ waitErr' = waitErr \cup {t}
    /\ UNCHANGED <<msgs, early>>

\* mutant of AfterHandler: at_exit loops and waits for the next event
AfterHandlerLoops == IF variant = "unix" THEN "wait" ELSE "lock1"

\* mutant of AfterHandler: at_exit returns without its second receive
AfterHandlerNoAck == "returned"

\* the user handler returns.  On unix at_exit returns with it; on windows
\* at_exit goes on to CHAN.1.lock().unwrap().recv().unwrap()
AfterHandler == IF variant = "unix" THEN "returned" ELSE "lock2"

HandlerReturn(t) ==
    /\ procAlive
    /\ pc[t] = "handler"
    /\ pc' = [pc EXCEPT ![t] = AfterHandler]
    /\ handlerDone' = [handlerDone EXCEPT ![t] = @ + 1]
    /\ UNCHANGED <<variant, procAlive, guard, initFailed, earlySpawn, handlerCalls,
                   handlerArg, handlerCtx, recvCount>>
    /\ UNCHANGED unixVars
    /\ UNCHANGED winVars
    /\ UNCHANGED histVars

(* ------------------------- windows variant ------------------------------ *)

\* what new() does with the BOOL SetConsoleCtrlHandler returns: the result
\* is discarded, a guard is returned either way
GuardAfterRegistration(ok) == "built"

\* SignalGuard::new (windows): unsafe { SetConsoleCtrlHandler(Some(handler), TRUE) };
NewWindows(ok) ==
    /\ procAlive
    /\ variant = "windows"
    /\ pc[MainThread] = "run"
    /\ guard = "none"
    /\ registered' = ok
    /\ initFailed' = ~ok
    /\ guard' = GuardAfterRegistration(ok)
    /\ pc' = [pc EXCEPT ![MainThread] = IF guard' = "built" THEN "run" ELSE "panicked"]
    /\ UNCHANGED <<variant, procAlive, mutexHeld, cbpc, cbEvent, cbRet, handlerCalls,
                   handlerArg, handlerCtx, handlerDone, recvCount, earlySpawn>>
    /\ UNCHANGED unixVars
    /\ UNCHANGED histVars

\* the OS raises a console event and runs the registered callback in a new
\* context: the callback blocks in CHAN.0.send(event)
ConsoleEvent(c, e) ==
    /\ procAlive
    /\ variant = "windows"
    /\ registered
    /\ cbpc[c] = "idle"
    /\ \A d \in Callbacks : d < c => cbpc[d] # "idle"
    /\ cbpc' = [cbpc EXCEPT ![c] = "send_event"]
    /\ cbEvent' = [cbEvent EXCEPT ![c] = e]
    /\ UNCHANGED <<variant, procAlive, guard, registered, mutexHeld, cbRet,
                   initFailed, earlySpawn>>
    /\ UNCHANGED threadVars
    /\ UNCHANGED unixVars
    /\ early' = (early /\ ArrivesEarly)
    /\ UNCHANGED <<waitErr, msgs>>

\* a console event while no callback is registered: the default handler
\* ends the process
DefaultConsoleEvent ==
    /\ procAlive
    /\ variant = "windows"
    /\ ~registered
    /\ procAlive' = FALSE
    /\ UNCHANGED <<variant, guard, initFailed, earlySpawn>>
    /\ UNCHANGED threadVars
    /\ UNCHANGED unixVars
    /\ UNCHANGED winVars
    /\ UNCHANGED histVars

\* CHAN.1.lock().unwrap(), first or second time
Lock(t) ==
    /\ procAlive
    /\ variant = "windows"
    /\ pc[t] \in {"lock1", "lock2"}
    /\ mutexHeld = {}
    /\ mutexHeld' = {t}
    /\ pc' = [pc EXCEPT ![t] = IF pc[t] = "lock1" THEN "recv1" ELSE "recv2"]
    /\ UNCHANGED <<variant, procAlive, guard, registered, cbpc, cbEvent, cbRet,
                   initFailed, earlySpawn, handlerCalls, handlerArg, handlerCtx,
                   handlerDone, recvCount>>
    /\ UNCHANGED unixVars
    /\ UNCHANGED histVars

\* mutant of Offered: the callback sends the event code twice
OfferedEventTwice(c) == cbEvent[c]

\* the value callback context c offers on CHAN.0: send(event), then send(0)
Offered(c) == IF cbpc[c] = "send_event" THEN cbEvent[c] ELSE AckValue

\* the message that crosses CHAN when thread t receives the blocked send of
\* callback context c: CHAN.0 (the sending end) is used by the callback only,
\* CHAN.1 (the receiving end) by at_exit only.  `nth` is the receive of t's
\* at_exit call that takes it, `done` whether t's handler had returned.
Message(c, t) ==
    [from |-> <<"callback", c>>, to |-> <<"thread", t>>, val |-> Offered(c),
     nth |-> recvCount[t] + 1, done |-> handlerDone[t] > 0]

\* mutant of CallbackAfterSend: the callback returns after its first send
CallbackOneSend(c) == "returned"

\* the callback's position once its blocked send has been received: after
\* send(event) it blocks in send(0); after send(0) it returns TRUE
CallbackAfterSend(c) == IF cbpc[c] = "send_event" THEN "send_ack" ELSE "returned"

\* mutant of CallbackResult: the callback does not claim the event
CallbackResultFalse == "FALSE"

\* the BOOL the callback returns
CallbackResult == "TRUE"

CallbackStep(c) ==
    /\ cbpc' = [cbpc EXCEPT ![c] = CallbackAfterSend(c)]
    /\ cbRet' = [cbRet EXCEPT ![c] = IF CallbackAfterSend(c) = "returned"
                                      THEN CallbackResult ELSE @]

\* at_exit's first receive meets a blocked send of callback context c:
\*   let event = { let receiver = CHAN.1.lock().unwrap(); receiver.recv().unwrap() };
\*   handler(event as usize);
\* the lock is released at the end of the block and the handler starts
RecvEvent(t, c) ==
    /\ procAlive
    /\ variant = "windows"
    /\ pc[t] = "recv1"
    /\ cbpc[c] \in {"send_event", "send_ack"}
    /\ CallbackStep(c)
    /\ mutexHeld' = mutexHeld \ {t}
    /\ pc' = [pc EXCEPT ![t] = "handler"]
    /\ handlerCalls' = [handlerCalls EXCEPT ![t] = @ + 1]
    /\ handlerArg' = [handlerArg EXCEPT ![t] = AsUsize(Offered(c))]
    /\ handlerCtx' = [handlerCtx EXCEPT ![t] = HandlerContext(t)]
    /\ recvCount' = [recvCount EXCEPT ![t] = @ + 1]
    /\ UNCHANGED <<variant, procAlive, guard, registered, cbEvent, handlerDone,
                   initFailed, earlySpawn>>
    /\ UNCHANGED unixVars
    /\ msgs' = [msgs EXCEPT ![c] = Append(@, Message(c, t))]
    /\ UNCHANGED <<waitErr, early>>

\* at_exit's second receive, CHAN.1.lock().unwrap().recv().unwrap(), meets a
\* blocked send of callback context c; the value is dropped, the lock is
\* released and at_exit returns
RecvAck(t, c) ==
    /\ procAlive
    /\ variant = "windows"
    /\ pc[t] = "recv2"
    /\ cbpc[c] \in {"send_event", "send_ack"}
    /\ CallbackStep(c)
    /\ mutexHeld' = mutexHeld \ {t}
    /\ pc' = [pc EXCEPT ![t] = "returned"]
    /\ recvCount' = [recvCount EXCEPT ![t] = @ + 1]
    /\ UNCHANGED <<variant, procAlive, guard, registered, cbEvent, handlerCalls,
                   handlerArg, handlerCtx, handlerDone, initFailed, earlySpawn>>
    /\ UNCHANGED unixVars
    /\ msgs' = [msgs EXCEPT ![c] = Append(@, Message(c, t))]
    /\ UNCHANGED <<waitErr, early>>

(* --------------------------- specification ------------------------------ *)

Next ==
    \/ \E p, t \in Threads : Spawn(p, t)
    \/ \E ok \in BOOLEAN : NewUnix(ok)
    \/ \E ok \in BOOLEAN : NewWindows(ok)
    \/ \E s \in Signals : Kill(s)
    \/ \E t \in Threads, s \in Signals : AsyncDeliver(t, s)
    \/ \E t \in Threads : AtExitCall(t)
    \/ \E t \in Threads, s \in Signals : SigwaitReturn(t, s)
    \/ \E t \in Threads : SigwaitFail(t)
    \/ \E t \in Threads : HandlerReturn(t)
    \/ \E c \in Callbacks, e \in ConsoleEvents : ConsoleEvent(c, e)
    \/ DefaultConsoleEvent
    \/ \E t \in Threads : Lock(t)
    \/ \E t \in Threads, c \in Callbacks : RecvEvent(t, c)
    \/ \E t \in Threads, c \in Callbacks : RecvAck(t, c)

Spec == Init /\ [][Next]_vars

TypeOK ==
    /\ variant \in {"unix", "windows"}
    /\ procAlive \in BOOLEAN
    /\ pc \in [Threads -> PcValues]
    /\ sigmask \in [Threads -> SUBSET Signals]
    /\ pending \subseteq Signals
    /\ guard \in {"none", "built"}
    /\ guardMask \subseteq Signals
    /\ registered \in BOOLEAN
    /\ mutexHeld \subseteq Threads
    /\ Cardinality(mutexHeld) <= 1
    /\ cbpc \in [Callbacks -> {"idle", "send_event", "send_ack", "returned"}]
    /\ cbEvent \in [Callbacks -> ConsoleEvents]
    /\ cbRet \in [Callbacks -> {"none", "TRUE", "FALSE"}]
    /\ handlerCalls \in [Threads -> Nat]
    /\ handlerDone \in [Threads -> Nat]
    /\ recvCount \in [Threads -> 0..2]
    /\ waitErr \subseteq Threads
    /\ \A c \in Callbacks : Len(msgs[c]) <= 2
    /\ early \in BOOLEAN
    /\ sendCount \in 0..MaxSends

(* ------------------------------ fairness -------------------------------- *)

\* Threads are native OS threads: a thread whose blocking call can complete
\* is eventually scheduled, and the user handler is assumed to terminate.
\* Nothing is assumed about the environment (signals, events, failures) or
\* about the application calling at_exit or spawning threads.
Fairness ==
    \A t \in Threads :
        /\ WF_vars(Lock(t))
        /\ WF_vars(HandlerReturn(t))
        /\ WF_vars(\E s \in Signals : SigwaitReturn(t, s))
        /\ WF_vars(\E c \in Callbacks : RecvEvent(t, c))
        /\ WF_vars(\E c \in Callbacks : RecvAck(t, c))

LiveSpec == Init /\ [][Next]_vars /\ Fairness

(* ------------------------ vocabulary of the claims ---------------------- *)

\* the signals the guard is for
Qualifying == {SIGINT, SIGQUIT, SIGTERM}

\* thread t has called at_exit
InAtExit(t) == pc[t] \in {"wait", "lock1", "recv1", "handler", "lock2", "recv2", "returned"}

\* the handler of t's at_exit call has been started and has not returned
HandlerRunning(t) == handlerCalls[t] > handlerDone[t]

\* the callback contexts the OS has started
Invoked == {c \in Callbacks : cbpc[c] # "idle"}

\* the codes of the signals / events delivered so far
DeliveredCodes ==
    IF variant = "unix" THEN sentSigs \cap Qualifying
                        ELSE {cbEvent[c] : c \in Invoked}

\* at most one thread has called at_exit (or failed in it)
SingleWaiter == Cardinality({t \in Threads : pc[t] \notin {"absent", "run"}}) <= 1

(* -------------------------------- C1 ------------------------------------ *)

\* C1: every at_exit call invokes the handler passed to it at most once, and
\* a call that has returned has invoked it exactly once (and it has completed
\* exactly once), on both variants.
C1_HandlerExactlyOnce ==
    \A t \in Threads :
        /\ handlerCalls[t] <= 1
        /\ pc[t] = "returned" => (handlerCalls[t] = 1 /\ handlerDone[t] = 1)

\* one console event, one at_exit call that has returned after one invocation
C1_Witness ==
    /\ variant = "windows"
    /\ Invoked = {1}
    /\ pc[MainThread] = "returned"
    /\ handlerCalls[MainThread] = 1

(* -------------------------------- C2 ------------------------------------ *)

\* C2: (windows) whenever a callback context has returned to the OS, a user
\* handler has run to completion and no user handler is still running.
C2_CallbackReturnsAfterHandler ==
    variant = "windows" =>
        \A c \in Callbacks :
            cbpc[c] = "returned" =>
                /\ \E t \in Threads : handlerDone[t] >= 1
                /\ \A t \in Threads : ~HandlerRunning(t)

\* the same with a single thread calling at_exit: this holds
C2_SingleWaiterLemma == SingleWaiter => C2_CallbackReturnsAfterHandler

(* -------------------------------- C3 ------------------------------------ *)

\* C3: the argument every invoked handler got is the code of a signal /
\* event that was delivered.
C3_HandlerGetsDeliveredCode ==
    \A t \in Threads : handlerCalls[t] > 0 => handlerArg[t] \in DeliveredCodes

\* the same with a single thread calling at_exit: this holds
C3_SingleWaiterLemma == SingleWaiter => C3_HandlerGetsDeliveredCode

(* -------------------------------- C4 ------------------------------------ *)

C5_NoAsyncDelivery ==
    [][ (variant = "unix" /\ guard = "built" /\ ~earlySpawn) =>
          /\ \A d \in asyncDelivered' \ asyncDelivered : d[2] \notin Qualifying
          /\ \A s \in Qualifying :
                (s \in pending /\ s \notin pending') =>
                    \E t \in Threads : /\ pc[t] = "wait"
                                       /\ pc'[t] = "handler"
                                       /\ handlerArg'[t] = s ]_vars

\* a worker spawned after new() exists, a qualifying signal was sent and the
\* main thread took it in at_exit; nothing was delivered asynchronously
C5_Witness ==
    /\ variant = "unix"
    /\ ~earlySpawn
    /\ pc[1] = "run"
    /\ sentSigs = {SIGTERM}
    /\ pc[MainThread] = "handler"
    /\ handlerArg[MainThread] = SIGTERM
    /\ asyncDelivered = {}
    /\ procAlive

(* -------------------------------- C6 ------------------------------------ *)

\* C6: (unix) once new() has returned, the main thread blocks SIGINT, SIGQUIT
\* and SIGTERM and the guard stores exactly these three.
C6_MaskAfterNew ==
    (variant = "unix" /\ guard = "built") =>
        /\ {2, 3, 15} \subseteq sigmask[MainThread]
        /\ guardMask = {2, 3, 15}

\* new() has returned on a thread that started with nothing blocked
C6_Witness ==
    /\ variant = "unix"
    /\ guard = "built"
    /\ sigmask[MainThread] = {2, 3, 15}
    /\ pc[MainThread] = "run"

(* -------------------------------- C7 ------------------------------------ *)

\* C7: an at_exit call that has returned has seen its handler complete and,
\* on windows, has completed both of its receives on the channel.
C7_ReturnAfterHandlerAndAck ==
    \A t \in Threads :
        pc[t] = "returned" =>
            /\ handlerDone[t] = 1
            /\ variant = "windows" => recvCount[t] = 2

\* at_exit has returned on windows and the callback has returned TRUE
C7_Witness ==
    /\ variant = "windows"
    /\ pc[MainThread] = "returned"
    /\ recvCount[MainThread] = 2
    /\ cbRet[1] = "TRUE"

(* -------------------------------- C8 ------------------------------------ *)

\* what the cycle of thread t ends in
CycleDone(t) ==
    /\ pc[t] = "returned"
    /\ variant = "windows" => (cbpc[1] = "returned" /\ cbRet[1] = "TRUE")

\* the execution has left the one-guard, one-waiter, one-event cycle: the
\* process was terminated, the wait failed, another thread called at_exit,
\* or a further console event was raised
OutsideCycle(t) ==
    \/ ~procAlive
    \/ pc[t] = "panicked"
    \/ \E u \in Threads \ {t} : pc[u] \notin {"absent", "run"}
    \/ \E c \in Callbacks \ {1} : cbpc[c] # "idle"

\* C8: under fair scheduling, once a thread is in at_exit and a qualifying
\* signal / event has been delivered, at_exit eventually returns (and on
\* windows the callback has returned TRUE), unless the execution leaves the
\* single cycle.
C8_CycleCompletes ==
    \A t \in Threads :
        (InAtExit(t) /\ DeliveredCodes # {}) ~> (CycleDone(t) \/ OutsideCycle(t))

\* a completed cycle of the main thread that never left the single cycle
C8_Witness ==
    /\ variant = "windows"
    /\ CycleDone(MainThread)
    /\ ~OutsideCycle(MainThread)

(* -------------------------------- C9 ------------------------------------ *)

\* C9: as long as no qualifying signal / event has been delivered, no
\* handler has been invoked and no at_exit call has got past its wait.
C9_NoEventNoHandler ==
    DeliveredCodes = {} =>
        \A t \in Threads :
            /\ handlerCalls[t] = 0
            /\ pc[t] \notin {"handler", "lock2", "recv2", "returned"}

\* a thread is suspended in sigwait, only a non-qualifying signal was sent
C9_Witness ==
    /\ variant = "unix"
    /\ pc[MainThread] = "wait"
    /\ sentSigs = NonQualifying
    /\ procAlive

(* -------------------------------- C10 ----------------------------------- *)

\* C10: if the OS-level initialization step of new() failed, no guard was
\* returned and the constructing thread ended in a fatal error.
C10_InitFailureIsFatal ==
    initFailed => (guard = "none" /\ pc[MainThread] = "panicked")

\* the unix half of C10: this holds
C10_UnixLemma == variant = "unix" => C10_InitFailureIsFatal

(* -------------------------------- C11 ----------------------------------- *)

\* C11: (unix) a thread whose wait returned Err has ended in a fatal error:
\* it is not back in the wait, its handler was never called.
C11_WaitFailureIsFatal ==
    \A t \in waitErr :
        /\ pc[t] = "panicked"
        /\ handlerCalls[t] = 0
        /\ handlerDone[t] = 0

\* the wait of the main thread failed while a qualifying signal is pending
C11_Witness ==
    /\ variant = "unix"
    /\ MainThread \in waitErr
    /\ SIGINT \in pending
    /\ procAlive

(* -------------------------------- C12 ----------------------------------- *)

\* C12: (windows) the two messages of a callback context are taken by the
\* same thread, the second one by that thread's second receive.
C12_SameWaiterTakesBoth ==
    \A c \in Callbacks :
        Len(msgs[c]) = 2 =>
            /\ msgs[c][1].to = msgs[c][2].to
            /\ msgs[c][2].nth = 2

\* the same with a single thread calling at_exit and a single event: holds
C12_SingleCycleLemma ==
    (SingleWaiter /\ Cardinality(Invoked) <= 1) => C12_SameWaiterTakesBoth

(* -------------------------------- C13 ----------------------------------- *)

C14_SeveralEventsOneWaiter ==
    (variant = "windows" /\ SingleWaiter) =>
        /\ \A c \in Callbacks :
              cbpc[c] = "returned" =>
                  /\ \E t \in Threads : handlerDone[t] >= 1
                  /\ \A t \in Threads : ~HandlerRunning(t)
        /\ \A t \in Threads :
              /\ handlerCalls[t] <= 1
              /\ handlerCalls[t] = 1 =>
                    \E c \in Callbacks :
                        /\ Len(msgs[c]) >= 1
                        /\ msgs[c][1].to = <<"thread", t>>
                        /\ msgs[c][1].nth = 1
                        /\ handlerArg[t] = cbEvent[c]

\* two callback contexts are blocked on the channel while the handler of
\* the only waiter runs
C14_Witness ==
    /\ variant = "windows"
    /\ SingleWaiter
    /\ cbpc[1] = "send_ack"
    /\ cbpc[2] = "send_event"
    /\ cbEvent[1] # cbEvent[2]
    /\ pc[MainThread] = "handler"
    /\ handlerArg[MainThread] = cbEvent[1]

(* -------------------------------- C15 ----------------------------------- *)

\* C15: (windows) at most one callback context is offering an event code.
C15_OneEventInFlight ==
    Cardinality({c \in Callbacks : cbpc[c] = "send_event"}) <= 1

(* -------------------------------- C16 ----------------------------------- *)

\* the event of callback context c was taken by a first receive, whose
\* handler got its code
TakenAsEvent(c) ==
    /\ Len(msgs[c]) >= 1
    /\ msgs[c][1].nth = 1
    /\ \E t \in Threads : /\ msgs[c][1].to = <<"thread", t>>
                          /\ handlerCalls[t] >= 1
                          /\ handlerArg[t] = cbEvent[c]

\* C16: when every qualifying signal / event so far arrived after new() and
\* before any at_exit call, each of them is still pending (unix; threads
\* spawned after new()) or still offered by its blocked callback (windows),
\* or was received by at_exit and given to a handler.
C16_EarlyEventNotLost ==
    early =>
        IF variant = "unix"
          THEN ~earlySpawn =>
                  \A s \in sentSigs \cap Qualifying :
                      \/ s \in pending
                      \/ \E t \in Threads : handlerCalls[t] >= 1 /\ handlerArg[t] = s
          ELSE \A c \in Invoked : cbpc[c] = "send_event" \/ TakenAsEvent(c)

\* the same with at most one console event raised: this holds
C16_SingleEventLemma == Cardinality(Invoked) <= 1 => C16_EarlyEventNotLost

(* -------------------------------- C17 ----------------------------------- *)

\* C17: (unix) no step of an at_exit call (entering the wait, the wait
\* returning, the handler returning) changes a thread's blocked signals or
\* the set stored in the guard, or terminates the process.
C17_AtExitKeepsMask ==
    [][ variant = "unix" =>
          \A t \in Threads :
              (/\ pc[t] \in {"run", "wait", "handler"}
               /\ pc'[t] \in {"wait", "handler", "returned"}
               /\ pc'[t] # pc[t]) =>
                  /\ sigmask' = sigmask
                  /\ guardMask' = guardMask
                  /\ procAlive' = procAlive ]_vars

\* at_exit has returned; the three signals are still blocked
C17_Witness ==
    /\ variant = "unix"
    /\ pc[MainThread] = "returned"
    /\ sigmask[MainThread] = {2, 3, 15}
    /\ guardMask = {2, 3, 15}
    /\ procAlive

(* -------------------------------- C18 ----------------------------------- *)

\* C18: (windows) a callback context that has returned has returned TRUE,
\* whatever its event code; none has returned FALSE.
C18_CallbackReturnsTrue ==
    \A c \in Callbacks :
        /\ cbpc[c] = "returned" <=> cbRet[c] = "TRUE"
        /\ cbRet[c] # "FALSE"

\* the callback invoked with CTRL_BREAK_EVENT has returned TRUE
C18_Witness ==
    /\ variant = "windows"
    /\ cbEvent[1] = 1
    /\ cbpc[1] = "returned"
    /\ cbRet[1] = "TRUE"

=============================================================================
